---------------------------- MODULE Spec2Model ----------------------------
(***************************************************************************)
(* Model of the two command-line assistants of the repository:             *)
(*   src/codewizard.py          (CodeAssistant: code + documentation)      *)
(*   src/codemistral-wizard.py  (CodeImprovementAssistant: code only)      *)
(*                                                                         *)
(* A text is a sequence of symbols.  A symbol is a one-character string    *)
(* ("a", "b", " ", "\n") or one of the four marker literals, which are     *)
(* kept atomic ("<code>", "</code>", "<doc>", "</doc>").                   *)
(***************************************************************************)
EXTENDS Naturals, Sequences, FiniteSets, TLC

\* ------------------------------------------------------------------ bounds
\* longest response (in lines) fed to the block extraction on its own:
\* lines of any kind, and plain and marker lines only
MaxLines == 4
MaxCoreLines == 6
\* longest response (in lines) the completion collaborator returns in a run
MaxRespLines == 2
\* most consecutive failures the scripted completion collaborator produces
MaxFails == 3

\* ------------------------------------------------------------------- text
NL == "\n"
SP == " "
CodeOpenTok == "<code>"
CodeCloseTok == "</code>"
DocOpenTok == "<doc>"
DocCloseTok == "</doc>"

\* str.splitlines(): the text is cut at every line break, the break is not
\* kept, and a final break opens no further (empty) line
RECURSIVE SplitFrom(_, _)
SplitFrom(text, cur) ==
    IF text = <<>> THEN (IF cur = <<>> THEN <<>> ELSE <<cur>>)
    ELSE IF Head(text) = NL THEN <<cur>> \o SplitFrom(Tail(text), <<>>)
    ELSE SplitFrom(Tail(text), Append(cur, Head(text)))

splitlines(text) == SplitFrom(text, <<>>)

\* str.strip(): leading and trailing white space removed
RECURSIVE LStrip(_)
LStrip(line) ==
    IF line # <<>> /\ Head(line) = SP THEN LStrip(Tail(line)) ELSE line

RECURSIVE RStrip(_)
RStrip(line) ==
    IF line # <<>> /\ line[Len(line)] = SP
    THEN RStrip(SubSeq(line, 1, Len(line) - 1))
    ELSE line

strip(line) == RStrip(LStrip(line))

\* a variant of the join that ends every line with a line break
RECURSIVE joinTrailing(_)
joinTrailing(lines) ==
    IF lines = <<>> THEN <<>> ELSE lines[1] \o <<NL>> \o joinTrailing(Tail(lines))

\* "\n".join(lines)
RECURSIVE join(_)
join(lines) ==
    IF lines = <<>> THEN <<>>
    ELSE IF Len(lines) = 1 THEN lines[1]
    ELSE lines[1] \o <<NL>> \o join(Tail(lines))

\* ------------------------------------------------- write_output_files: scan
\* the four locals of write_output_files before its loop
ScanInit ==
    [code |-> <<>>, doc |-> <<>>, in_code_block |-> FALSE, in_doc_block |-> FALSE]

\* a variant of the loop body in which the open markers lack their `continue`:
\* the marker line falls through to the appends
ProcessLineKeepMarker(st, line) ==
    IF strip(line) = <<CodeOpenTok>>
    THEN [st EXCEPT !.in_code_block = TRUE, !.code = Append(st.code, line)]
    ELSE IF strip(line) = <<CodeCloseTok>> THEN [st EXCEPT !.in_code_block = FALSE]
    ELSE IF strip(line) = <<DocOpenTok>>
    THEN IF st.in_code_block
         THEN [st EXCEPT !.in_doc_block = TRUE, !.code = Append(st.code, line)]
         ELSE [st EXCEPT !.in_doc_block = TRUE, !.doc = Append(st.doc, line)]
    ELSE IF strip(line) = <<DocCloseTok>> THEN [st EXCEPT !.in_doc_block = FALSE]
    ELSE IF st.in_code_block THEN [st EXCEPT !.code = Append(st.code, line)]
    ELSE IF st.in_doc_block THEN [st EXCEPT !.doc = Append(st.doc, line)]
    ELSE st

\* a variant of the loop body that looks for the marker anywhere in the line
HasTok(line, tok) == \E i \in 1..Len(line) : line[i] = tok

ProcessLineContains(st, line) ==
    IF HasTok(line, CodeOpenTok) THEN [st EXCEPT !.in_code_block = TRUE]
    ELSE IF HasTok(line, CodeCloseTok) THEN [st EXCEPT !.in_code_block = FALSE]
    ELSE IF HasTok(line, DocOpenTok) THEN [st EXCEPT !.in_doc_block = TRUE]
    ELSE IF HasTok(line, DocCloseTok) THEN [st EXCEPT !.in_doc_block = FALSE]
    ELSE IF st.in_code_block THEN [st EXCEPT !.code = Append(st.code, line)]
    ELSE IF st.in_doc_block THEN [st EXCEPT !.doc = Append(st.doc, line)]
    ELSE st

\* a variant of the loop body in which an open marker starts a fresh buffer
ProcessLineResetOnOpen(st, line) ==
    IF strip(line) = <<CodeOpenTok>> THEN [st EXCEPT !.in_code_block = TRUE, !.code = <<>>]
    ELSE IF strip(line) = <<CodeCloseTok>> THEN [st EXCEPT !.in_code_block = FALSE]
    ELSE IF strip(line) = <<DocOpenTok>> THEN [st EXCEPT !.in_doc_block = TRUE, !.doc = <<>>]
    ELSE IF strip(line) = <<DocCloseTok>> THEN [st EXCEPT !.in_doc_block = FALSE]
    ELSE IF st.in_code_block THEN [st EXCEPT !.code = Append(st.code, line)]
    ELSE IF st.in_doc_block THEN [st EXCEPT !.doc = Append(st.doc, line)]
    ELSE st

\* one iteration of the loop over content.splitlines()
ProcessLine(st, line) ==
    IF strip(line) = <<CodeOpenTok>> THEN [st EXCEPT !.in_code_block = TRUE]
    ELSE IF strip(line) = <<CodeCloseTok>> THEN [st EXCEPT !.in_code_block = FALSE]
    ELSE IF strip(line) = <<DocOpenTok>> THEN [st EXCEPT !.in_doc_block = TRUE]
    ELSE IF strip(line) = <<DocCloseTok>> THEN [st EXCEPT !.in_doc_block = FALSE]
    ELSE IF st.in_code_block THEN [st EXCEPT !.code = Append(st.code, line)]
    ELSE IF st.in_doc_block THEN [st EXCEPT !.doc = Append(st.doc, line)]
    ELSE st

\* the loop
RECURSIVE ScanLines(_, _)
ScanLines(st, lines) ==
    IF lines = <<>> THEN st ELSE ScanLines(ProcessLine(st, Head(lines)), Tail(lines))

\* the locals after the loop, for a response text
Scan(content) == ScanLines(ScanInit, splitlines(content))

\* ----------------------------------------------------------------- inputs
\* the lines responses are made of: two plain lines and the four marker lines
CoreLines ==
    { <<"a">>, <<"b">>,
      <<CodeOpenTok>>, <<CodeCloseTok>>, <<DocOpenTok>>, <<DocCloseTok>> }

\* and an empty line, a marker between blanks, a marker followed by other text
LineKinds ==
    CoreLines \cup { <<>>, <<SP, CodeOpenTok, SP>>, <<DocCloseTok, "a">> }

LineSeqs(n) == UNION { [1..k -> LineKinds] : k \in 0..n }

Responses(n) == { join(ls) : ls \in LineSeqs(n) }

\* ------------------------------------------------------------------ state
VARIABLES
    prog,             \* which script runs
    api_key,          \* os.environ.get("MISTRAL_API_KEY")
    input_code_file,  \* the -i argument
    stub,             \* the behaviour of client.chat.complete in this run
    fs,               \* the output files
    pc,               \* the statement the run is at
    status,           \* how the process ended
    calls,            \* calls of client.chat.complete made
    messages,         \* the request
    dump,             \* api_request.json
    chat_response,    \* what client.chat.complete returned
    content,          \* choices[0].message.content
    scan,             \* code, doc, in_code_block, in_doc_block
    code_content,
    doc_content,
    io,               \* the files opened, in order
    console           \* what was printed, in order

vars ==
    << prog, api_key, input_code_file, stub, fs, pc, status, calls, messages,
       dump, chat_response, content, scan, code_content, doc_content, io, console >>

Progs == { "codewizard", "codemistral" }

\* the environment variable: unset (None), set to the empty string, set
KeyUnset == "<unset>"
ApiKeys == { KeyUnset, "", "sk-key" }

NoInput == "<none>"
InputPath == "input.py"

\* self.out_filename + ".py", self.out_filename + ".md"; args.output
CodeFile == "out.py"
DocFile == "out.md"
OutFile == "out"
DumpFile == "api_request.json"
Paths == { CodeFile, DocFile, OutFile }

Absent == [exists |-> FALSE, data |-> <<>>]
OldFile == [exists |-> TRUE, data |-> <<"old">>]
File(data) == [exists |-> TRUE, data |-> data]

\* the exceptions client.chat.complete raises
FailureKinds == { "Transport", "Auth", "RateLimited", "ServerError" }
NoFail == [fails |-> 0, kind |-> "none"]
Stubs ==
    { NoFail } \cup { [fails |-> n, kind |-> k] : n \in 1..MaxFails, k \in FailureKinds }

Say(msg) == Append(console, msg)

\* sys.exit(1)
Exit1(msg) ==
    /\ console' = Say(msg)
    /\ status' = "exit1"
    /\ pc' = "done"

\* an exception nothing catches: the interpreter prints the traceback
Crash ==
    /\ console' = Say("Traceback")
    /\ status' = "crash"
    /\ pc' = "done"

Init ==
    /\ prog \in Progs
    /\ api_key \in ApiKeys
    /\ input_code_file \in (IF prog = "codewizard" THEN { NoInput, InputPath } ELSE { InputPath })
    /\ stub \in Stubs
    /\ fs \in [Paths -> { Absent, OldFile }]
    /\ pc = "init"
    /\ status = "running"
    /\ calls = 0
    /\ messages = <<>>
    /\ dump = Absent
    /\ chat_response = [choices |-> <<>>]
    /\ content = <<>>
    /\ scan = ScanInit
    /\ code_content = <<>>
    /\ doc_content = <<>>
    /\ io = <<>>
    /\ console = <<>>

\* ---------------------------------------------------------------- actions
\* a variant of initialize_mistral_client without the test of the key
InitializeMistralClientNoCheck ==
    /\ pc = "init"
    /\ \E ok \in BOOLEAN :
         IF ok
         THEN /\ pc' = "read"
              /\ UNCHANGED << console, status >>
         ELSE Exit1("ErrClientInit")
    /\ UNCHANGED << prog, api_key, input_code_file, stub, fs, calls, messages, dump,
                    chat_response, content, scan, code_content, doc_content, io >>

\* __init__ up to and including initialize_mistral_client
InitializeMistralClient ==
    /\ pc = "init"
    /\ IF api_key \in { KeyUnset, "" }
       THEN Exit1("ErrNoApiKey")
       ELSE \E ok \in BOOLEAN :
              IF ok
              THEN /\ pc' = "read"
                   /\ UNCHANGED << console, status >>
              ELSE Exit1("ErrClientInit")
    /\ UNCHANGED << prog, api_key, input_code_file, stub, fs, calls, messages, dump,
                    chat_response, content, scan, code_content, doc_content, io >>

\* a variant of read_code_file whose except clauses print and do not exit
ReadCodeFileNoExit ==
    /\ pc = "read"
    /\ IF input_code_file = NoInput
       THEN /\ pc' = "build"
            /\ UNCHANGED << console, status, io >>
       ELSE /\ io' = Append(io, <<"r", input_code_file>>)
            /\ \E r \in { "ok", "notfound", "error" } :
                 /\ console' = Say(CASE r = "ok" -> "InputCode"
                                     [] r = "notfound" -> "ErrInputNotFound"
                                     [] r = "error" -> "ErrReadInput")
                 /\ pc' = "build"
                 /\ UNCHANGED status
    /\ UNCHANGED << prog, api_key, input_code_file, stub, fs, calls, messages, dump,
                    chat_response, content, scan, code_content, doc_content >>

\* generate_code_and_doc: the optional read of the input file (read_code_file);
\* generate_improved_code always reads
ReadCodeFile ==
    /\ pc = "read"
    /\ IF input_code_file = NoInput
       THEN /\ pc' = "build"
            /\ UNCHANGED << console, status, io >>
       ELSE /\ io' = Append(io, <<"r", input_code_file>>)
            /\ \E r \in { "ok", "notfound", "error" } :
                 CASE r = "ok" -> /\ console' = Say("InputCode")
                                  /\ pc' = "build"
                                  /\ UNCHANGED status
                   [] r = "notfound" -> Exit1("ErrInputNotFound")
                   [] r = "error" -> Exit1("ErrReadInput")
    /\ UNCHANGED << prog, api_key, input_code_file, stub, fs, calls, messages, dump,
                    chat_response, content, scan, code_content, doc_content >>

\* the embedded source: a fenced block around what was read, or nothing
Embedded ==
    IF input_code_file = NoInput THEN <<>> ELSE << "FENCE_OPEN", "INPUT", "FENCE_CLOSE" >>

\* the message list of each script
Messages ==
    IF prog = "codewizard"
    THEN << [role |-> "system", content |-> << "SYSTEM_PROMPT" >>],
            [role |-> "user",
             content |-> << "prompt", "; ", "COMPLEMENT_PROMPT" >> \o Embedded] >>
    ELSE << [role |-> "user", content |-> << "prompt" >> \o Embedded] >>

BuildRequest ==
    /\ pc = "build"
    /\ messages' = Messages
    /\ console' = Say("Generating")
    /\ pc' = "call"
    /\ UNCHANGED << prog, api_key, input_code_file, stub, fs, status, calls, dump,
                    chat_response, content, scan, code_content, doc_content, io >>

\* what client.chat.complete can return: no choice, or one choice with a text
ChatResponses ==
    { [choices |-> <<>>] } \cup { [choices |-> <<t>>] : t \in Responses(MaxRespLines) }

\* a variant of the call with dump_api_request(messages) moved before the try
ChatCompleteDumpFirst ==
    /\ pc = "call"
    /\ calls' = calls + 1
    /\ io' = IF prog = "codewizard" THEN Append(io, <<"w", DumpFile>>) ELSE io
    /\ dump' = IF prog = "codewizard" THEN File(messages) ELSE dump
    /\ IF calls + 1 <= stub.fails
       THEN /\ Exit1("ErrApiCall")
            /\ UNCHANGED chat_response
       ELSE /\ \E resp \in ChatResponses : chat_response' = resp
            /\ pc' = "response"
            /\ UNCHANGED << console, status >>
    /\ UNCHANGED << prog, api_key, input_code_file, stub, fs, messages,
                    content, scan, code_content, doc_content >>

\* a variant of the call that tries again after an exception, up to 3 calls
ChatCompleteRetry ==
    /\ pc = "call"
    /\ calls' = calls + 1
    /\ IF calls + 1 <= stub.fails
       THEN /\ IF calls + 1 < 3
               THEN UNCHANGED << pc, console, status >>
               ELSE Exit1("ErrApiCall")
            /\ UNCHANGED chat_response
       ELSE /\ \E resp \in ChatResponses : chat_response' = resp
            /\ pc' = "response"
            /\ UNCHANGED << console, status >>
    /\ UNCHANGED << prog, api_key, input_code_file, stub, fs, messages, dump,
                    content, scan, code_content, doc_content, io >>

\* the call and its except clause
ChatComplete ==
    /\ pc = "call"
    /\ calls' = calls + 1
    /\ IF calls + 1 <= stub.fails
       THEN /\ Exit1("ErrApiCall")
            /\ UNCHANGED chat_response
       ELSE /\ \E resp \in ChatResponses : chat_response' = resp
            /\ pc' = "response"
            /\ UNCHANGED << console, status >>
    /\ UNCHANGED << prog, api_key, input_code_file, stub, fs, messages, dump,
                    content, scan, code_content, doc_content, io >>

\* after the call: dump_api_request (codewizard only), choices[0].message.content
TakeContent ==
    /\ pc = "response"
    /\ \E dumped \in (IF prog = "codewizard" THEN BOOLEAN ELSE { TRUE }) :
         /\ io' = IF prog = "codewizard" THEN Append(io, <<"w", DumpFile>>) ELSE io
         /\ IF ~dumped
            THEN /\ Crash
                 /\ UNCHANGED << dump, content >>
            ELSE /\ dump' = IF prog = "codewizard" THEN File(messages) ELSE dump
                 /\ IF chat_response.choices = <<>>
                    THEN /\ Crash
                         /\ UNCHANGED content
                    ELSE /\ content' = chat_response.choices[1]
                         /\ console' = Say("GeneratedCode")
                         /\ pc' = IF prog = "codewizard" THEN "extract" ELSE "write_out"
                         /\ UNCHANGED status
    /\ UNCHANGED << prog, api_key, input_code_file, stub, fs, calls, messages,
                    chat_response, scan, code_content, doc_content >>

\* write_output_files: the loop and the two joins
ExtractBlocks ==
    /\ pc = "extract"
    /\ scan' = Scan(content)
    /\ code_content' = join(Scan(content).code)
    /\ doc_content' = join(Scan(content).doc)
    /\ pc' = "write_code"
    /\ UNCHANGED << prog, api_key, input_code_file, stub, fs, status, calls, messages,
                    dump, chat_response, content, io, console >>

\* open(path, "w"), write(data), write("\n"): the file after each outcome.
\* A failed open leaves the file as it was; a failed write leaves what reached
\* the file before the failure
WriteOutcomes == { "ok", "open_fail", "write_fail" }

Written(path, data, r, part) ==
    CASE r = "ok" -> [fs EXCEPT ![path] = File(data \o <<NL>>)]
      [] r = "open_fail" -> fs
      [] r = "write_fail" -> [fs EXCEPT ![path] = File(part)]

Partial(data) == { <<>>, data }

\* a variant with a try block of its own around the code file: its except
\* clause prints and the function goes on to the documentation file
WriteCodeFileContinue ==
    /\ pc = "write_code"
    /\ io' = Append(io, <<"w", CodeFile>>)
    /\ \E r \in WriteOutcomes, part \in Partial(code_content) :
         /\ fs' = Written(CodeFile, code_content, r, part)
         /\ console' = Say(IF r = "ok" THEN "WroteCode" ELSE "ErrWriteOutput")
         /\ pc' = "write_doc"
         /\ UNCHANGED status
    /\ UNCHANGED << prog, api_key, input_code_file, stub, calls, messages, dump,
                    chat_response, content, scan, code_content, doc_content >>

\* write_output_files: the code file
WriteCodeFile ==
    /\ pc = "write_code"
    /\ io' = Append(io, <<"w", CodeFile>>)
    /\ \E r \in WriteOutcomes, part \in Partial(code_content) :
         /\ fs' = Written(CodeFile, code_content, r, part)
         /\ IF r = "ok"
            THEN /\ console' = Say("WroteCode")
                 /\ pc' = "write_doc"
                 /\ UNCHANGED status
            ELSE Exit1("ErrWriteOutput")
    /\ UNCHANGED << prog, api_key, input_code_file, stub, calls, messages, dump,
                    chat_response, content, scan, code_content, doc_content >>

\* write_output_files: the documentation file
WriteDocFile ==
    /\ pc = "write_doc"
    /\ io' = Append(io, <<"w", DocFile>>)
    /\ \E r \in WriteOutcomes, part \in Partial(doc_content) :
         /\ fs' = Written(DocFile, doc_content, r, part)
         /\ IF r = "ok"
            THEN /\ console' = Say("WroteDoc")
                 /\ status' = "ok"
                 /\ pc' = "done"
            ELSE Exit1("ErrWriteOutput")
    /\ UNCHANGED << prog, api_key, input_code_file, stub, calls, messages, dump,
                    chat_response, content, scan, code_content, doc_content >>

\* codemistral-wizard: write_output_file(args.output, improved_code)
WriteOutputFile ==
    /\ pc = "write_out"
    /\ io' = Append(io, <<"w", OutFile>>)
    /\ \E r \in WriteOutcomes, part \in Partial(content) :
         /\ fs' = Written(OutFile, content, r, part)
         /\ IF r = "ok"
            THEN /\ console' = Say("WroteCode")
                 /\ status' = "ok"
                 /\ pc' = "done"
            ELSE Exit1("ErrWriteOutput")
    /\ UNCHANGED << prog, api_key, input_code_file, stub, calls, messages, dump,
                    chat_response, content, scan, code_content, doc_content >>

Next ==
    \/ InitializeMistralClient
    \/ ReadCodeFile
    \/ BuildRequest
    \/ ChatComplete
    \/ TakeContent
    \/ ExtractBlocks
    \/ WriteCodeFile
    \/ WriteDocFile
    \/ WriteOutputFile

Spec == Init /\ [][Next]_vars

\* ------------------------------------------- the block extraction on its own
\* write_output_files entered with a response of up to MaxLines lines, in a
\* codewizard run whose call succeeded
InitExtract ==
    /\ prog = "codewizard"
    /\ api_key = "sk-key"
    /\ input_code_file = NoInput
    /\ stub = NoFail
    /\ fs = [p \in Paths |-> Absent]
    /\ pc = "extract"
    /\ status = "running"
    /\ calls = 1
    /\ messages = Messages
    /\ dump = File(Messages)
    /\ \/ \E k \in 0..MaxLines : \E ls \in [1..k -> LineKinds] : content = join(ls)
       \/ \E k \in 0..MaxCoreLines : \E ls \in [1..k -> CoreLines] : content = join(ls)
    /\ chat_response = [choices |-> <<content>>]
    /\ scan = ScanInit
    /\ code_content = <<>>
    /\ doc_content = <<>>
    /\ io = << <<"w", DumpFile>> >>
    /\ console = << "Generating", "GeneratedCode" >>

NextExtract == ExtractBlocks

SpecExtract == InitExtract /\ [][NextExtract]_vars

\* ------------------------------------------------------- reading the state
\* the lines of the response, and where the marker lines are among lines L
Lines == splitlines(content)
IsMarker(line, tok) == strip(line) = <<tok>>
Tokens == { CodeOpenTok, CodeCloseTok, DocOpenTok, DocCloseTok }
IsMarkerLine(line) == LET s == strip(line) IN Len(s) = 1 /\ s[1] \in Tokens
Idx(L, tok) == { i \in 1..Len(L) : IsMarker(L[i], tok) }
The(S) == CHOOSE i \in S : TRUE
Least(S) == CHOOSE i \in S : \A j \in S : i <= j
Most(S) == CHOOSE i \in S : \A j \in S : j <= i
IsPlain(line) == ~IsMarkerLine(line)
\* the plain lines of L strictly between lines i and j
PlainBetween(L, i, j) == SelectSeq(SubSeq(L, i + 1, j - 1), IsPlain)

\* the extraction has run on the response
Extracted ==
    \/ pc \in { "write_code", "write_doc" }
    \/ pc = "done" /\ prog = "codewizard" /\ \E i \in 1..Len(io) : io[i] = <<"w", CodeFile>>

\* the marker anomalies the run reported
AnomalyKinds == { "unmatched-close", "nested-open", "never-closed", "marker-on-non-empty-line" }
IsAnomaly(msg) == msg \in AnomalyKinds
anomalies == SelectSeq(console, IsAnomaly)
Count(kind) == Cardinality({ i \in 1..Len(anomalies) : anomalies[i] = kind })

\* a file is as it was before the run
Untouched(path) == fs[path] \in { Absent, OldFile }
Printed(msg) == \E i \in 1..Len(console) : console[i] = msg

\* ------------------------------------------------------------------ claims
\* C1: one well-formed <code> pair and one well-formed <doc> pair (each opened
\* before it is closed, the two blocks not overlapping): code_text is the
\* lines strictly between the code markers, doc_text the lines strictly
\* between the doc markers, newline-joined in order, and no anomaly is recorded.
OnePairEach(L) ==
    LET co == Idx(L, CodeOpenTok)
        cc == Idx(L, CodeCloseTok)
        do == Idx(L, DocOpenTok)
        dc == Idx(L, DocCloseTok)
    IN  /\ Cardinality(co) = 1 /\ Cardinality(cc) = 1
        /\ Cardinality(do) = 1 /\ Cardinality(dc) = 1
        /\ The(co) < The(cc)
        /\ The(do) < The(dc)
        /\ The(cc) < The(do) \/ The(dc) < The(co)

C1_OnePairEach ==
    Extracted =>
        LET L == Lines
        IN  OnePairEach(L) =>
              /\ code_content =
                   join(SubSeq(L, The(Idx(L, CodeOpenTok)) + 1, The(Idx(L, CodeCloseTok)) - 1))
              /\ doc_content =
                   join(SubSeq(L, The(Idx(L, DocOpenTok)) + 1, The(Idx(L, DocCloseTok)) - 1))
              /\ anomalies = <<>>

C1_Witness ==
    /\ Extracted /\ OnePairEach(Lines)
    /\ code_content # <<>> /\ doc_content # <<>> /\ code_content # doc_content

\* C2: two disjoint <code>...</code> occurrences: code_text is the lines of
\* the first followed by the lines of the second, newline-joined; the second
\* open marker discards nothing.
TwoCodeBlocks(L) ==
    LET co == Idx(L, CodeOpenTok)
        cc == Idx(L, CodeCloseTok)
    IN  /\ Cardinality(co) = 2
        /\ Cardinality(cc) = 2
        /\ Least(co) < Least(cc)
        /\ Least(cc) < Most(co)
        /\ Most(co) < Most(cc)

FirstSegment(L) == PlainBetween(L, Least(Idx(L, CodeOpenTok)), Least(Idx(L, CodeCloseTok)))
SecondSegment(L) == PlainBetween(L, Most(Idx(L, CodeOpenTok)), Most(Idx(L, CodeCloseTok)))

C2_TwoCodeBlocks ==
    Extracted =>
        LET L == Lines
        IN  TwoCodeBlocks(L) => code_content = join(FirstSegment(L) \o SecondSegment(L))

C2_Witness ==
    /\ Extracted /\ TwoCodeBlocks(Lines)
    /\ FirstSegment(Lines) # <<>> /\ SecondSegment(Lines) # <<>>
    /\ FirstSegment(Lines) # SecondSegment(Lines)
    /\ code_content = join(FirstSegment(Lines) \o SecondSegment(Lines))

\* C3: <code> opened and never closed: exactly one never-closed anomaly is
\* recorded and code_text is every line from the open marker to the end.
OpenNeverClosed(L) ==
    /\ Cardinality(Idx(L, CodeOpenTok)) = 1
    /\ Idx(L, CodeCloseTok) = {}

C3_NeverClosed_AsClaimed ==
    (Extracted /\ OpenNeverClosed(Lines)) =>
        /\ Count("never-closed") = 1
        /\ code_content = join(PlainBetween(Lines, The(Idx(Lines, CodeOpenTok)), Len(Lines) + 1))

\* C4: a </code> line with no <code> line before it: exactly one
\* unmatched-close anomaly is recorded, the code block stays closed and
\* code_text holds none of the lines before that close marker.
UnmatchedClose(L) ==
    /\ Cardinality(Idx(L, CodeCloseTok)) = 1
    /\ \A o \in Idx(L, CodeOpenTok) : The(Idx(L, CodeCloseTok)) < o

\* the locals of the loop once it has passed the close marker
UpToClose == ScanLines(ScanInit, SubSeq(Lines, 1, The(Idx(Lines, CodeCloseTok))))

C4_UnmatchedClose_AsClaimed ==
    (Extracted /\ UnmatchedClose(Lines)) =>
        /\ Count("unmatched-close") = 1
        /\ ~UpToClose.in_code_block
        /\ UpToClose.code = <<>>

\* C5: a response without any marker line: both buffers are empty, the run
\* ends in a fatal failure and neither artifact is written.
NoMarkers == \A i \in 1..Len(Lines) : IsPlain(Lines[i])

C5_NoContent_AsClaimed ==
    (prog = "codewizard" /\ Printed("GeneratedCode") /\ NoMarkers) =>
        /\ Extracted => (code_content = <<>> /\ doc_content = <<>>)
        /\ status # "ok"
        /\ Untouched(CodeFile) /\ Untouched(DocFile)

\* C6: the call fails with Transport twice and would succeed the third time:
\* the completion stage succeeds after exactly 3 calls.
C6_RetryTransport_AsClaimed ==
    (stub = [fails |-> 2, kind |-> "Transport"] /\ pc = "done" /\ calls > 0) =>
        /\ calls = 3
        /\ ~Printed("ErrApiCall")

\* C7: the call fails with Auth: exactly one call is made, there is no retry,
\* and the run ends at once in a fatal failure.
C7_AuthFatal ==
    (stub.kind = "Auth" /\ calls > 0) =>
        /\ calls = 1
        /\ pc = "done"
        /\ status = "exit1"
        /\ console[Len(console)] = "ErrApiCall"

C7_Witness == stub.kind = "Auth" /\ calls = 1 /\ pc = "done" /\ status = "exit1"

\* C8: artifact writing is all-or-nothing: no run ends with exactly one of the
\* two artifacts (re)written.
C8_AllOrNothing_AsClaimed ==
    (prog = "codewizard" /\ pc = "done") => (Untouched(CodeFile) <=> Untouched(DocFile))

\* C9: after a fatal failure before the writing stage (credential, client,
\* input file, completion call, response) no artifact is created or modified.
PreWriterFailures ==
    { "ErrNoApiKey", "ErrClientInit", "ErrInputNotFound", "ErrReadInput", "ErrApiCall",
      "Traceback" }

C9_NoArtifactAfterEarlyFailure ==
    (\E msg \in PreWriterFailures : Printed(msg)) =>
        /\ \A p \in Paths : Untouched(p)
        /\ \A i \in 1..Len(io) : io[i][2] \notin Paths

C9_Witness ==
    /\ pc = "done" /\ status = "exit1" /\ Printed("ErrApiCall")
    /\ fs[CodeFile] = OldFile /\ fs[DocFile] = Absent

\* C10: without MISTRAL_API_KEY the run fails before a request is built: the
\* input file is not read, no call is made, nothing is written.
C10_MissingCredential ==
    (api_key = KeyUnset) =>
        /\ pc \in { "init", "done" }
        /\ pc = "done" => status = "exit1"
        /\ io = <<>>
        /\ messages = <<>>
        /\ calls = 0
        /\ dump = Absent
        /\ \A p \in Paths : Untouched(p)

C10_Witness ==
    /\ api_key = KeyUnset /\ input_code_file = InputPath
    /\ pc = "done" /\ status = "exit1" /\ Printed("ErrNoApiKey")

\* C11: round trip: code_text put between a fresh <code> line and a fresh
\* </code> line and extracted again gives the same code_text.
Rewrapped == <<CodeOpenTok, NL>> \o code_content \o <<NL, CodeCloseTok>>

C11_RoundTrip ==
    Extracted => join(Scan(Rewrapped).code) = code_content

C11_Witness ==
    /\ Extracted
    /\ Len(scan.code) >= 2 /\ scan.code[1] = <<>> /\ scan.code[2] # <<>>
    /\ join(Scan(Rewrapped).code) = code_content

\* the anomalies the design asks for, for one marker pair over the lines L:
\* an open marker while open, a close marker while closed, the end while open
RECURSIVE PairAnomalies(_, _, _, _)
PairAnomalies(L, open, close, isOpen) ==
    IF L = <<>> THEN (IF isOpen THEN << "never-closed" >> ELSE <<>>)
    ELSE IF IsMarker(Head(L), open)
    THEN (IF isOpen THEN << "nested-open" >> ELSE <<>>)
             \o PairAnomalies(Tail(L), open, close, TRUE)
    ELSE IF IsMarker(Head(L), close)
    THEN (IF isOpen THEN <<>> ELSE << "unmatched-close" >>)
             \o PairAnomalies(Tail(L), open, close, FALSE)
    ELSE PairAnomalies(Tail(L), open, close, isOpen)

ExpectedAnomalies(L) ==
    PairAnomalies(L, CodeOpenTok, CodeCloseTok, FALSE)
        \o PairAnomalies(L, DocOpenTok, DocCloseTok, FALSE)

\* C12: anomalies are not fatal and are reported: a response with a non-empty
\* buffer and a marker anomaly still has both artifacts written (the run
\* fails only if a write fails) and the run reports every anomaly.
C12_AnomaliesReported_AsClaimed ==
    ( /\ prog = "codewizard" /\ pc = "done" /\ Extracted
      /\ code_content # <<>> \/ doc_content # <<>>
      /\ ExpectedAnomalies(Lines) # <<>> ) =>
        /\ status = "ok" \/ Printed("ErrWriteOutput")
        /\ status = "ok" =>
             /\ fs[CodeFile] = File(code_content \o <<NL>>)
             /\ fs[DocFile] = File(doc_content \o <<NL>>)
             /\ Len(anomalies) = Len(ExpectedAnomalies(Lines))

\* the buffer the design asks for, for one marker pair over the lines L: the
\* plain lines met while that pair's block is open, whatever the other block is
RECURSIVE PairBuffer(_, _, _, _)
PairBuffer(L, open, close, isOpen) ==
    IF L = <<>> THEN <<>>
    ELSE IF IsMarker(Head(L), open) THEN PairBuffer(Tail(L), open, close, TRUE)
    ELSE IF IsMarker(Head(L), close) THEN PairBuffer(Tail(L), open, close, FALSE)
    ELSE IF IsMarkerLine(Head(L)) THEN PairBuffer(Tail(L), open, close, isOpen)
    ELSE (IF isOpen THEN << Head(L) >> ELSE <<>>)
             \o PairBuffer(Tail(L), open, close, isOpen)

\* C13: a plain line is appended to every buffer whose block is open: to both
\* while both are open, to neither while neither is.
C13_PlainToEveryOpenBuffer_AsClaimed ==
    Extracted =>
        LET L == Lines
        IN  /\ scan.code = PairBuffer(L, CodeOpenTok, CodeCloseTok, FALSE)
            /\ scan.doc = PairBuffer(L, DocOpenTok, DocCloseTok, FALSE)

\* the locals of the loop before its first iteration and after each one
RECURSIVE Trace(_, _)
Trace(st, lines) ==
    IF lines = <<>> THEN << st >>
    ELSE << st >> \o Trace(ProcessLine(st, Head(lines)), Tail(lines))

\* C14: a line changes the state of a block only if, stripped, it is exactly
\* one of the four markers; a line holding a marker and other text is a plain
\* line: it opens and closes nothing and is appended or dropped as the plain
\* line "a" would be at the same place.
HasToken(line) == \E i \in 1..Len(line) : line[i] \in Tokens
SameBlocks(s, t) ==
    s.in_code_block = t.in_code_block /\ s.in_doc_block = t.in_doc_block

C14_MarkerOnlyIfWholeLine ==
    Extracted =>
        LET L == Lines
            tr == Trace(ScanInit, L)
        IN  \A i \in 1..Len(L) :
              LET before == tr[i]
                  after == tr[i + 1]
                  plain == ProcessLine(before, << "a" >>)
              IN  /\ ~SameBlocks(before, after) => IsMarkerLine(L[i])
                  /\ (HasToken(L[i]) /\ ~IsMarkerLine(L[i])) =>
                       /\ SameBlocks(before, after)
                       /\ after.code = IF plain.code = before.code THEN before.code
                                       ELSE Append(before.code, L[i])
                       /\ after.doc = IF plain.doc = before.doc THEN before.doc
                                      ELSE Append(before.doc, L[i])

C14_Witness ==
    /\ Extracted
    /\ scan.in_doc_block
    /\ scan.doc = << << DocCloseTok, "a" >> >>

\* C15: an open marker met while its block is open records a nested-open
\* anomaly, is not put into the buffer and does not reset it: the lines before
\* and after the second open marker are all in code_text, in order.
NestedOpen(L) ==
    /\ Cardinality(Idx(L, CodeOpenTok)) = 2
    /\ Idx(L, CodeCloseTok) = {}

C15_NestedOpen_AsClaimed ==
    Extracted =>
        LET L == Lines
        IN  NestedOpen(L) =>
              /\ Count("nested-open") = 1
              /\ scan.code = PlainBetween(L, Least(Idx(L, CodeOpenTok)), Len(L) + 1)

\* C16: every attempt fails with a retryable kind: exactly 3 calls are made,
\* then the last failure ends the run; no run makes more than 3 calls.
Retryable == { "Transport", "RateLimited", "ServerError" }

C16_RetryBound_AsClaimed ==
    /\ calls <= 3
    /\ (stub.kind \in Retryable /\ stub.fails >= 3 /\ pc = "done" /\ calls > 0) =>
         /\ calls = 3
         /\ status = "exit1"
         /\ console[Len(console)] = "ErrApiCall"

\* C17: the collaborator returns no choice, or a choice with empty content:
\* the run ends in a fatal failure after exactly one call, with no retry and
\* no artifact written.
Malformed ==
    /\ calls > 0 /\ ~Printed("ErrApiCall")
    /\ \/ chat_response.choices = <<>>
       \/ chat_response.choices = << <<>> >>

C17_MalformedResponse_AsClaimed ==
    (Malformed /\ pc = "done") =>
        /\ calls = 1
        /\ status \in { "exit1", "crash" }
        /\ \A p \in Paths : Untouched(p)

\* C18: after any prefix of the response neither buffer holds a line that,
\* stripped, is one of the four markers: marker lines of either pair are
\* consumed in every state (a <doc> line inside an open code block is not in
\* code_text).
AllPlain(buf) == \A k \in 1..Len(buf) : IsPlain(buf[k])

C18_NoMarkerInBuffers ==
    Extracted =>
        /\ AllPlain(scan.code) /\ AllPlain(scan.doc)
        /\ LET tr == Trace(ScanInit, Lines)
           IN  \A i \in 1..Len(tr) : AllPlain(tr[i].code) /\ AllPlain(tr[i].doc)

C18_Witness ==
    /\ Extracted
    /\ scan.code # <<>> /\ AllPlain(scan.code)
    /\ \E i \in Idx(Lines, DocOpenTok) :
         ScanLines(ScanInit, SubSeq(Lines, 1, i - 1)).in_code_block

\* C19: the code artifact is written before the documentation artifact; if
\* writing the code artifact fails the documentation artifact is not opened,
\* created or modified; each output path is written at most once in a run.
WriteEvents(path) == { i \in 1..Len(io) : io[i] = <<"w", path>> }

C19_WriteOrder ==
    /\ \A p \in Paths : Cardinality(WriteEvents(p)) <= 1
    /\ \A d \in WriteEvents(DocFile) : \E c \in WriteEvents(CodeFile) : c < d
    /\ (WriteEvents(DocFile) # {} \/ ~Untouched(DocFile)) =>
         /\ Printed("WroteCode")
         /\ fs[CodeFile] = File(code_content \o <<NL>>)
    /\ (WriteEvents(CodeFile) # {} /\ ~Printed("WroteCode")) =>
         /\ WriteEvents(DocFile) = {}
         /\ Untouched(DocFile)

C19_Witness ==
    /\ pc = "done" /\ status = "exit1"
    /\ WriteEvents(CodeFile) # {} /\ ~Printed("WroteCode")
    /\ fs[CodeFile] = File(<<>>) /\ fs[DocFile] = OldFile

\* C20: api_request.json is written only after the call has returned, and
\* before any artifact; a failed call leaves no dump; the dump holds the
\* messages that were sent, the system message first, then the user message.
DumpEvents == { i \in 1..Len(io) : io[i] = <<"w", DumpFile>> }

C20_DumpOrder ==
    /\ (DumpEvents # {} \/ dump.exists) =>
         /\ prog = "codewizard"
         /\ calls = 1 /\ ~Printed("ErrApiCall")
         /\ pc \notin { "init", "read", "build", "call", "response" }
    /\ \A d \in DumpEvents : \A p \in Paths : \A w \in WriteEvents(p) : d < w
    /\ (prog = "codewizard" /\ \E p \in Paths : WriteEvents(p) # {}) => dump.exists
    /\ Printed("ErrApiCall") => (DumpEvents = {} /\ ~dump.exists)
    /\ dump.exists =>
         /\ dump.data = messages
         /\ Len(dump.data) = 2
         /\ dump.data[1].role = "system" /\ dump.data[2].role = "user"

C20_Witness ==
    /\ prog = "codewizard" /\ input_code_file = InputPath
    /\ pc = "done" /\ status = "ok"
    /\ dump.exists /\ dump.data = messages
    /\ WriteEvents(CodeFile) # {}

=============================================================================
